---- MODULE Spec2Model ----
(***************************************************************************)
(* Model of the Q-Messaging Center (messaging_center/main.py): the magic-  *)
(* link outreach protocol over the SQLite tables outreach_messages,        *)
(* bp_readings and referral_requests.                                      *)
(*                                                                         *)
(* Every request handler opens its own connection (db()), so requests run  *)
(* concurrently and are serialised only by SQLite: a connection takes the  *)
(* database write lock at its first INSERT/UPDATE and keeps it up to       *)
(* commit(); a SELECT takes no write lock and sees committed rows only.    *)
(* enqueue, go, bp_submit and referral_submit write and commit within one  *)
(* handler and are one atomic step each.  send_queued reads the queued ids *)
(* (no lock), then updates them one by one (lock taken at the first        *)
(* UPDATE) and commits: other requests can commit between its SELECT and   *)
(* its first UPDATE.  From that UPDATE to the commit the sweep holds the    *)
(* write lock and its updates are invisible to the other connections, so   *)
(* the loop and the commit are one atomic step (SendWrite); a writer that  *)
(* finds the lock taken waits for it (sqlite3's busy timeout).             *)
(*                                                                         *)
(* Time is a discrete clock; one tick stands for DaysPerTick days, and     *)
(* every datetime.utcnow() read in a handler returns the current tick.     *)
(* jose encodes and compares the exp claim in whole seconds                *)
(* (timegm(utctimetuple())): the part of utcnow() below the second is      *)
(* micro.now, which the codec never reads; SpecClock lets it vary.         *)
(*                                                                         *)
(* The handlers carry no bounds; the specifications schedule a request     *)
(* that adds a row only while the tables are below the bounds.  Spec runs  *)
(* every handler over up to MaxRecords records with one send_queued        *)
(* invocation in flight at a time; SpecSingle follows a single record      *)
(* through every handler; SpecSweeps runs two send_queued invocations      *)
(* concurrently; SpecClock follows one link of any patient and measure     *)
(* with time resolved below the second; SpecLinks presents links that     *)
(* were signed with SECRET (whose default is public) and never enqueued;  *)
(* SpecDispatch adds the sweep whose wait for the write lock times out;    *)
(* SpecFair runs such sweeps again and again; SpecPatients gives each      *)
(* patient one record.                                                     *)
(***************************************************************************)
EXTENDS Integers, Sequences, FiniteSets, TLC

\* ---- bounds of the model ----
MaxPatient == 2
MaxClock == 2
MaxRecords == 2
MaxRows == 3
\* instants told apart within one second
Resolution == 2

\* ---- program constants ----
TokenDays == 10
SysLimit == 140
DiaLimit == 90
NULL == -1

SECRET == "dev-secret"
ForgedKey == "other-secret"
Keys == {SECRET, ForgedKey}

Patients == 1..MaxPatient
Measures == {"CBP", "STATIN", "DM_A1C"}
\* the measures enqueued in the model: the handlers read the measure only in
\* the test m == "CBP", and STATIN stands for the other codes
EnqueuedMeasures == {"CBP", "STATIN"}
Sweepers == {"s1", "s2"}
\* submitted readings <<sys, dia>>: below both limits, and at either limit
Readings == {<<SysLimit - 1, DiaLimit - 1>>, <<SysLimit, DiaLimit - 1>>,
             <<SysLimit - 1, DiaLimit>>}
Reasons == {"Cardiology"}

\* the clock ticks once per token lifetime: timedelta(days=10) is TTL ticks
DaysPerTick == TokenDays
TTL == TokenDays \div DaysPerTick

VARIABLES
    clock,      \* datetime.utcnow(), in ticks
    outreach,   \* table outreach_messages (committed rows), row id = index
    readings,   \* table bp_readings
    referrals,  \* table referral_requests
    sweep,      \* per send_queued invocation: position and fetched ids
    response,   \* the last HTTP response returned in the current tick
    quiet,      \* history (SpecSweeps): the ledger when a run of sweeps began
    micro       \* (SpecClock) utcnow() below the second: now, and when the
                \* link was minted

vars == <<clock, outreach, readings, referrals, sweep, response, quiet, micro>>
ledger == <<outreach, readings, referrals>>

\* ---- token codec ----
\* jwt.encode(payload, SECRET, HS256): the serialized token is determined by
\* the payload and the signing key.
Encode(payload, key) ==
    [pid |-> payload.pid, m |-> payload.m, exp |-> payload.exp, key |-> key]

\* variant: the payload without timedelta(days=10)
create_magic_token_now(patient_id, measure) ==
    Encode([pid |-> patient_id, m |-> measure, exp |-> clock], SECRET)
create_magic_token(patient_id, measure) ==
    Encode([pid |-> patient_id, m |-> measure, exp |-> clock + TTL], SECRET)

\* jwt.decode(token, SECRET): the signature must be made with SECRET and the
\* exp claim must not lie before now.
SignatureOk(t) == t.key = SECRET
\* variant: a token rejected from the second of its exp claim on
ExpiredFromExp(t) == t.exp <= clock
\* variant: decoding with the expiry check switched off
ExpiredNever(t) == FALSE
Expired(t) == t.exp < clock
Verifies(t) == SignatureOk(t) /\ ~Expired(t)
verify_token(t) == [pid |-> t.pid, m |-> t.m, exp |-> t.exp]

\* ---- responses ----
\* status code, body (or redirect target), and send_queued's {"sent": n}
Resp(code, body) == [code |-> code, body |-> body, sent |-> NULL]
NoResponse == Resp(0, "")
\* raise HTTPException(status_code=401, detail="Invalid or expired link")
Unauthorized == Resp(401, "Invalid or expired link")
\* RedirectResponse(url="/thanks", status_code=303)
Thanks == Resp(303, "/thanks")

\* ---- history of sweep runs (kept by SpecSweeps only) ----
\* on: send_queued invocations have run since the last other request, the
\* first of them reading the ledger `base` with no invocation in flight;
\* runs: how many of them have committed (counted up to 2); overlap: one of
\* them read while another was in flight
NoRun == [on |-> FALSE, base |-> <<>>, runs |-> 0, overlap |-> FALSE]

\* ---- initial state: init_db() on an empty qmsg.db ----
Init ==
    /\ clock = 0
    /\ outreach = <<>>
    /\ readings = <<>>
    /\ referrals = <<>>
    /\ sweep = [s \in Sweepers |-> [pc |-> "idle", rows |-> <<>>]]
    /\ response = NoResponse
    /\ quiet = NoRun
    /\ micro = [now |-> 0, mint |-> NULL]

\* ---- POST /api/enqueue ----
NewRow(patient_id, measure, token) ==
    [patient_id |-> patient_id, measure |-> measure, channel |-> "sms",
     status |-> "queued", sent_at |-> clock, delivered_at |-> NULL,
     clicked_at |-> NULL, completed_at |-> NULL, token_jwt |-> token]

enqueue(patient_id, measure) ==
    /\ outreach' = Append(outreach,
                          NewRow(patient_id, measure,
                                 create_magic_token(patient_id, measure)))
    /\ response' = Resp(200, "ok")
    /\ UNCHANGED <<clock, readings, referrals, sweep>>

\* ---- the tokens a client can present ----
\* the links stored in the ledger, and the same payloads signed with another
\* key
StoredTokens == {outreach[i].token_jwt : i \in DOMAIN outreach}
ForgedTokens == {Encode(verify_token(t), ForgedKey) : t \in StoredTokens}
Tokens == StoredTokens \cup ForgedTokens

\* ---- POST /api/send_queued ----
\* SELECT id FROM outreach_messages WHERE status='queued'
QueuedIds(rows) ==
    LET RECURSIVE Collect(_)
        Collect(i) == IF i > Len(rows) THEN <<>>
                      ELSE IF rows[i].status = "queued"
                           THEN <<i>> \o Collect(i + 1)
                           ELSE Collect(i + 1)
    IN Collect(1)

\* variant: the UPDATE without its WHERE clause (a bulk flip)
MarkSentAll(rows, id) ==
    [i \in DOMAIN rows |-> [rows[i] EXCEPT !.status = "sent"]]
\* UPDATE outreach_messages SET status='sent' WHERE id=?
MarkSent(rows, id) ==
    [i \in DOMAIN rows |->
        IF i = id THEN [rows[i] EXCEPT !.status = "sent"] ELSE rows[i]]

\* variant: the loop leaves out the last fetched id
RECURSIVE MarkAllSentButLast(_, _, _)
MarkAllSentButLast(rows, r, k) ==
    IF k >= Len(r) THEN rows
    ELSE MarkAllSentButLast(MarkSent(rows, r[k]), r, k + 1)
\* the loop's updates for the fetched ids r[k..], applied in order
RECURSIVE MarkAllSent(_, _, _)
MarkAllSent(rows, r, k) ==
    IF k > Len(r) THEN rows ELSE MarkAllSent(MarkSent(rows, r[k]), r, k + 1)

\* rows = con.execute("SELECT ...").fetchall()
SendRead(s) ==
    /\ sweep[s].pc = "idle"
    /\ sweep' = [sweep EXCEPT ![s] = [pc |-> "loop", rows |-> QueuedIds(outreach)]]
    /\ UNCHANGED <<clock, outreach, readings, referrals, response>>

\* for r in rows: UPDATE ...; con.commit(); return {"sent": len(rows)}
SendWrite(s) ==
    /\ sweep[s].pc = "loop"
    /\ outreach' = MarkAllSent(outreach, sweep[s].rows, 1)
    /\ response' = [Resp(200, "sent") EXCEPT
                        !.sent = Len(sweep[s].rows)]
    /\ sweep' = [sweep EXCEPT ![s] = [pc |-> "idle", rows |-> <<>>]]
    /\ UNCHANGED <<clock, readings, referrals>>

\* the first UPDATE raises sqlite3.OperationalError (database is locked)
\* when the lock is held beyond the connection's timeout: the handler has no
\* except clause, the request is answered 500 and nothing was written
SendFail(s) ==
    /\ sweep[s].pc = "loop"
    /\ sweep[s].rows # <<>>
    /\ response' = Resp(500, "Internal Server Error")
    /\ sweep' = [sweep EXCEPT ![s] = [pc |-> "idle", rows |-> <<>>]]
    /\ UNCHANGED <<clock, outreach, readings, referrals>>

\* ---- GET /go ----
\* variant: the UPDATE without "AND clicked_at IS NULL"
MarkClickedAlways(rows, t) ==
    [i \in DOMAIN rows |->
        IF rows[i].token_jwt = t
        THEN [rows[i] EXCEPT !.clicked_at = clock]
        ELSE rows[i]]
\* UPDATE outreach_messages SET clicked_at=? WHERE token_jwt=? AND clicked_at IS NULL
MarkClicked(rows, t) ==
    [i \in DOMAIN rows |->
        IF rows[i].token_jwt = t /\ rows[i].clicked_at = NULL
        THEN [rows[i] EXCEPT !.clicked_at = clock]
        ELSE rows[i]]

\* variant: an expired link answered with a message of its own
go_telling(t) ==
    /\ response' = IF ~SignatureOk(t) THEN Unauthorized
                   ELSE IF Expired(t) THEN Resp(401, "Link expired")
                   ELSE Resp(200, "Care actions")
    /\ outreach' = IF Verifies(t) THEN MarkClicked(outreach, t) ELSE outreach
    /\ UNCHANGED <<clock, readings, referrals, sweep>>
go(t) ==
    IF ~Verifies(t)
    THEN /\ response' = Unauthorized
         /\ UNCHANGED <<clock, outreach, readings, referrals, sweep>>
    ELSE /\ outreach' = MarkClicked(outreach, t)
         /\ response' = Resp(200, "Care actions")
         /\ UNCHANGED <<clock, readings, referrals, sweep>>

\* ---- GET /bp ----
bp_form(t) ==
    /\ response' = IF Verifies(t)
                   THEN Resp(200, "Submit Blood Pressure")
                   ELSE Unauthorized
    /\ UNCHANGED <<clock, outreach, readings, referrals, sweep>>

\* ---- POST /bp ----
\* variant: the rule applied to every measure
GoalMetAnyMeasure(measure, sys, dia) == sys < SysLimit /\ dia < DiaLimit
\* variant: the limits compared with <=
GoalMetInclusive(measure, sys, dia) ==
    measure = "CBP" /\ sys <= SysLimit /\ dia <= DiaLimit
\* data["m"] == "CBP" and sys < 140 and dia < 90
GoalMet(measure, sys, dia) ==
    measure = "CBP" /\ sys < SysLimit /\ dia < DiaLimit

\* INSERT INTO bp_readings (patient_id, systolic, diastolic, reported_at, source)
ReadingRow(data, sys, dia) ==
    [patient_id |-> data.pid, systolic |-> sys, diastolic |-> dia,
     reported_at |-> clock, source |-> "patient_portal"]

\* variant: the UPDATE keyed by the token's measure
MarkCompletedByMeasure(rows, t) ==
    [i \in DOMAIN rows |->
        IF rows[i].measure = t.m
        THEN [rows[i] EXCEPT !.completed_at = clock, !.status = "completed"]
        ELSE rows[i]]
\* variant: the UPDATE restricted to rows that were clicked
MarkCompletedIfClicked(rows, t) ==
    [i \in DOMAIN rows |->
        IF rows[i].token_jwt = t /\ rows[i].clicked_at # NULL
        THEN [rows[i] EXCEPT !.completed_at = clock, !.status = "completed"]
        ELSE rows[i]]
\* UPDATE outreach_messages SET completed_at=?, status='completed' WHERE token_jwt=?
MarkCompleted(rows, t) ==
    [i \in DOMAIN rows |->
        IF rows[i].token_jwt = t
        THEN [rows[i] EXCEPT !.completed_at = clock, !.status = "completed"]
        ELSE rows[i]]

\* variant: the reading is stored only when the goal is met
InsertReadingIfMet(data, sys, dia) ==
    IF GoalMet(data.m, sys, dia)
    THEN Append(readings, ReadingRow(data, sys, dia))
    ELSE readings
InsertReading(data, sys, dia) == Append(readings, ReadingRow(data, sys, dia))

\* the statements bp_submit executes after the token verified
BpWrites(t, sys, dia) ==
    LET data == verify_token(t) IN
    /\ readings' = InsertReading(data, sys, dia)
    /\ outreach' = IF GoalMet(data.m, sys, dia)
                   THEN MarkCompleted(outreach, t)
                   ELSE outreach

\* variant: a redirect of its own when the goal is met
bp_submit_telling(t, sys, dia) ==
    IF ~Verifies(t)
    THEN /\ response' = Unauthorized
         /\ UNCHANGED <<clock, outreach, readings, referrals, sweep>>
    ELSE /\ BpWrites(t, sys, dia)
         /\ response' = IF GoalMet(verify_token(t).m, sys, dia)
                        THEN Resp(303, "/thanks?goal=met")
                        ELSE Thanks
         /\ UNCHANGED <<clock, referrals, sweep>>
bp_submit(t, sys, dia) ==
    IF ~Verifies(t)
    THEN /\ response' = Unauthorized
         /\ UNCHANGED <<clock, outreach, readings, referrals, sweep>>
    ELSE /\ BpWrites(t, sys, dia)
         /\ response' = Thanks
         /\ UNCHANGED <<clock, referrals, sweep>>

\* ---- GET /referral ----
referral_form(t) ==
    /\ response' = IF Verifies(t)
                   THEN Resp(200, "Referral Request")
                   ELSE Unauthorized
    /\ UNCHANGED <<clock, outreach, readings, referrals, sweep>>

\* ---- POST /referral ----
\* INSERT INTO referral_requests (patient_id, reason, free_text, created_at, status)
ReferralRow(data, reason, ft) ==
    [patient_id |-> data.pid, reason |-> reason, free_text |-> ft,
     created_at |-> clock, status |-> "new"]

referral_submit(t, reason, ft) ==
    IF ~Verifies(t)
    THEN /\ response' = Unauthorized
         /\ UNCHANGED <<clock, outreach, readings, referrals, sweep>>
    ELSE /\ referrals' = Append(referrals, ReferralRow(verify_token(t), reason, ft))
         /\ response' = Thanks
         /\ UNCHANGED <<clock, outreach, readings, sweep>>

\* ---- time passes ----
Tick ==
    /\ clock < MaxClock
    /\ clock' = clock + 1
    /\ response' = NoResponse
    /\ UNCHANGED <<outreach, readings, referrals, sweep>>

\* ---- scheduling bounds ----
\* rows held by the three tables
TotalRows == Len(outreach) + Len(readings) + Len(referrals)
\* a request that adds a row is scheduled while there is room for the row
Room == TotalRows < MaxRows
\* a POST with token t adds a row unless the token is rejected
RoomFor(t) == Verifies(t) => Room

\* patient ids are interchangeable: a new patient takes the next unused id
KnownPatients == {outreach[i].patient_id : i \in DOMAIN outreach}
NextPatients == {p \in Patients : p <= Cardinality(KnownPatients) + 1}

\* ---- Spec: every handler, one send_queued invocation at a time ----
Enqueue ==
    /\ Room /\ Len(outreach) < MaxRecords
    /\ \E p \in NextPatients, m \in EnqueuedMeasures : enqueue(p, m)
    /\ UNCHANGED <<quiet, micro>>
Read == SendRead("s1") /\ UNCHANGED <<quiet, micro>>
Write == SendWrite("s1") /\ UNCHANGED <<quiet, micro>>
Go ==
    /\ \E t \in Tokens : go(t)
    /\ UNCHANGED <<quiet, micro>>
BpForm ==
    /\ \E t \in Tokens : bp_form(t)
    /\ UNCHANGED <<quiet, micro>>
BpSubmit ==
    /\ \E t \in Tokens, r \in Readings : RoomFor(t) /\ bp_submit(t, r[1], r[2])
    /\ UNCHANGED <<quiet, micro>>
ReferralForm ==
    /\ \E t \in Tokens : referral_form(t)
    /\ UNCHANGED <<quiet, micro>>
ReferralSubmit ==
    /\ \E t \in Tokens, reason \in Reasons :
          RoomFor(t) /\ referral_submit(t, reason, "")
    /\ UNCHANGED <<quiet, micro>>
Elapse == Tick /\ UNCHANGED <<quiet, micro>>

Next ==
    \/ Enqueue
    \/ Read
    \/ Write
    \/ Go
    \/ BpForm
    \/ BpSubmit
    \/ ReferralForm
    \/ ReferralSubmit
    \/ Elapse

Spec == Init /\ [][Next]_vars

\* ---- SpecSingle: one outreach record through every handler ----
SingleEnqueue ==
    /\ outreach = <<>>
    /\ \E m \in EnqueuedMeasures : enqueue(1, m)
    /\ UNCHANGED <<quiet, micro>>

NextSingle ==
    \/ SingleEnqueue
    \/ Read
    \/ Write
    \/ Go
    \/ BpForm
    \/ BpSubmit
    \/ ReferralForm
    \/ ReferralSubmit
    \/ Elapse

SpecSingle == Init /\ [][NextSingle]_vars

\* ---- SpecSweeps: two concurrent send_queued invocations ----
\* requests for one CBP patient set the ledger up; each of them ends the
\* current run of sweeps
SweepsEnqueue ==
    /\ Room /\ Len(outreach) < MaxRecords
    /\ enqueue(1, "CBP")
    /\ quiet' = NoRun
    /\ UNCHANGED micro
SweepsGo ==
    /\ \E t \in StoredTokens : go(t)
    /\ quiet' = NoRun
    /\ UNCHANGED micro
SweepsBpSubmit ==
    /\ \E t \in StoredTokens :
          RoomFor(t) /\ bp_submit(t, SysLimit - 1, DiaLimit - 1)
    /\ quiet' = NoRun
    /\ UNCHANGED micro
SweepsElapse == Tick /\ UNCHANGED <<quiet, micro>>

InFlight == {s \in Sweepers : sweep[s].pc # "idle"}

SweepsRead ==
    \E s \in Sweepers :
        /\ SendRead(s)
        /\ quiet' = IF quiet.on
                     THEN [quiet EXCEPT !.overlap = @ \/ InFlight # {}]
                     ELSE IF InFlight = {}
                          THEN [NoRun EXCEPT !.on = TRUE, !.base = outreach]
                          ELSE quiet
        /\ UNCHANGED micro
SweepsWrite ==
    \E s \in Sweepers :
        /\ SendWrite(s)
        /\ quiet' = IF quiet.on /\ quiet.runs < 2
                     THEN [quiet EXCEPT !.runs = @ + 1]
                     ELSE quiet
        /\ UNCHANGED micro

NextSweeps ==
    \/ SweepsEnqueue
    \/ SweepsGo
    \/ SweepsBpSubmit
    \/ SweepsElapse
    \/ SweepsRead
    \/ SweepsWrite

SpecSweeps == Init /\ [][NextSweeps]_vars

\* ---- SpecClock: one link, time resolved below the second ----
\* utcnow() is clock whole units and micro.now parts of a second
ClockEnqueue ==
    /\ outreach = <<>>
    /\ \E p \in Patients, m \in Measures : enqueue(p, m)
    /\ micro' = [micro EXCEPT !.mint = micro.now]
    /\ UNCHANGED quiet
\* time passes within the second
Moment ==
    /\ micro.now < Resolution - 1
    /\ micro' = [micro EXCEPT !.now = @ + 1]
    /\ UNCHANGED <<clock, outreach, readings, referrals, sweep, response, quiet>>
\* a tick passes, to any instant of the second reached
ClockElapse ==
    /\ Tick
    /\ \E f \in 0..(Resolution - 1) : micro' = [micro EXCEPT !.now = f]
    /\ UNCHANGED quiet

NextClock ==
    \/ ClockEnqueue
    \/ Moment
    \/ ClockElapse
    \/ Go
    \/ BpForm
    \/ BpSubmit
    \/ ReferralForm

SpecClock == Init /\ [][NextClock]_vars

\* ---- SpecLinks: links signed with SECRET that no record holds ----
\* what a holder of SECRET mints now, for any patient and measure
MintedTokens == {create_magic_token(p, m) : p \in Patients, m \in Measures}
LinksGo ==
    /\ \E t \in Tokens \cup MintedTokens : go(t)
    /\ UNCHANGED <<quiet, micro>>
LinksBpSubmit ==
    /\ \E t \in Tokens \cup MintedTokens, r \in Readings :
          RoomFor(t) /\ bp_submit(t, r[1], r[2])
    /\ UNCHANGED <<quiet, micro>>

NextLinks ==
    \/ SingleEnqueue
    \/ LinksGo
    \/ LinksBpSubmit
    \/ Elapse

SpecLinks == Init /\ [][NextLinks]_vars

\* ---- SpecDispatch: sweeps that can fail on the write lock ----
Abort == SendFail("s1") /\ UNCHANGED <<quiet, micro>>

NextDispatch ==
    \/ Enqueue
    \/ Read
    \/ Write
    \/ Abort
    \/ Go
    \/ BpSubmit
    \/ Elapse

SpecDispatch == Init /\ [][NextDispatch]_vars

\* ---- SpecFair: send_queued run again and again ----
\* a sweep is started whenever none is in flight, and a sweep that is tried
\* again and again is eventually granted the write lock (the other
\* connections release it at their commit)
FairEnqueue ==
    /\ Room /\ Len(outreach) < MaxRecords
    /\ enqueue(1, "CBP")
    /\ UNCHANGED <<quiet, micro>>

NextFair ==
    \/ FairEnqueue
    \/ Read
    \/ Write
    \/ Abort
    \/ BpSubmit
    \/ Elapse

SpecFair ==
    /\ Init
    /\ [][NextFair]_vars
    /\ WF_vars(Read)
    /\ SF_vars(Write)

\* ---- SpecPatients: one CBP record per patient ----
PatientsEnqueue ==
    /\ Room /\ Len(outreach) < MaxRecords
    /\ Len(outreach) < MaxPatient
    /\ enqueue(Len(outreach) + 1, "CBP")
    /\ UNCHANGED <<quiet, micro>>

NextPatientsSpec ==
    \/ PatientsEnqueue
    \/ Go
    \/ BpSubmit
    \/ ReferralSubmit
    \/ Elapse

SpecPatients == Init /\ [][NextPatientsSpec]_vars

\* ======================= properties =======================
\* a token as the claims speak of it, independent of the codec above
ForgedOrExpired(t) == t.key # SECRET \/ t.exp < clock
ValidToken(t) == t.key = SECRET /\ t.exp >= clock
Qualifying(r) == r[1] < SysLimit /\ r[2] < DiaLimit

\* the order queued < sent < clicked < completed
Rank(status) ==
    CASE status = "queued" -> 0
      [] status = "sent" -> 1
      [] status = "clicked" -> 2
      [] status = "completed" -> 3

\* C1: under any interleaving of enqueue, send_queued, click and reading
\* submission, no outreach record's status moves backward in the order
\* queued < sent < clicked < completed.
C1_StatusNeverMovesBackward ==
    [][\A i \in DOMAIN outreach :
          Rank(outreach'[i].status) >= Rank(outreach[i].status)]_vars

\* C2: a token-bearing request (GET /go, GET and POST /bp, GET and POST
\* /referral) whose token is expired or not signed with the service secret
\* is answered with the 401 error and leaves the outreach ledger, the
\* reading log and the referral log as they were.
\* (stated step by step: a step either is such a rejection, or it is no
\* token-bearing request with a bad token)
Rejected == response' = Unauthorized /\ UNCHANGED ledger
BadTokenRequest(t) ==
    \/ go(t)
    \/ bp_form(t)
    \/ referral_form(t)
    \/ \E r \in Readings : bp_submit(t, r[1], r[2])
    \/ \E reason \in Reasons : referral_submit(t, reason, "")
C2_BadTokenRejected ==
    [][Rejected \/ \A t \in Tokens : ForgedOrExpired(t) => ~BadTokenRequest(t)]_vars
\* a request was rejected while the ledger holds a clicked record whose
\* token has expired, a reading and a referral
C2_Witness ==
    /\ response = Unauthorized
    /\ \E i \in DOMAIN outreach :
          outreach[i].token_jwt.exp < clock /\ outreach[i].clicked_at # NULL
    /\ readings # <<>>
    /\ referrals # <<>>

\* the last row of the reading log
LastReading == readings[Len(readings)]
\* the reading log row of a submission of reading r with token t
RowOf(t, r) ==
    [patient_id |-> t.pid, systolic |-> r[1], diastolic |-> r[2],
     reported_at |-> clock, source |-> "patient_portal"]
\* a reading submission with a valid token
AcceptedSubmission(t, r) == ValidToken(t) /\ bp_submit(t, r[1], r[2])

\* C3: for every outreach record with measure CBP and every reading with
\* systolic < 140 and diastolic < 90 submitted with that record's unexpired
\* token, the record has status completed and completed_at set once the
\* submission returns.
C3_QualifyingReadingCompletes ==
    [][\A i \in DOMAIN outreach, r \in Readings :
          (/\ outreach[i].measure = "CBP"
           /\ Qualifying(r)
           /\ AcceptedSubmission(outreach[i].token_jwt, r))
          => /\ outreach'[i].status = "completed"
             /\ outreach'[i].completed_at # NULL]_vars
\* a qualifying reading was just submitted for a clicked CBP record, which
\* is completed
C3_Witness ==
    /\ response = Thanks
    /\ referrals = <<>>
    /\ Len(outreach) = 1
    /\ outreach[1].measure = "CBP"
    /\ outreach[1].clicked_at # NULL
    /\ outreach[1].status = "completed"
    /\ outreach[1].completed_at = clock
    /\ Len(readings) = 1
    /\ LastReading = RowOf(outreach[1].token_jwt, <<SysLimit - 1, DiaLimit - 1>>)

\* C4: a reading submission with a valid token whose reading has
\* systolic >= 140 or diastolic >= 90 leaves every field of every outreach
\* record unchanged (a step that changes a record is no such submission).
C4_NonQualifyingLeavesLedger ==
    [][\/ outreach' = outreach
       \/ \A t \in Tokens, r \in Readings :
             ~(~Qualifying(r) /\ AcceptedSubmission(t, r))]_vars
\* a reading of exactly 140 was just submitted for a clicked CBP record,
\* which is not completed
C4_Witness ==
    /\ response = Thanks
    /\ referrals = <<>>
    /\ Len(outreach) = 1
    /\ outreach[1].measure = "CBP"
    /\ outreach[1].clicked_at # NULL
    /\ outreach[1].status = "sent"
    /\ outreach[1].completed_at = NULL
    /\ Len(readings) = 1
    /\ LastReading = RowOf(outreach[1].token_jwt, <<SysLimit, DiaLimit - 1>>)

\* C5: every reading submission with a valid token appends exactly one row
\* to the reading log, whether or not the goal is met and whatever the
\* record's status, and no other step changes the log: the log only grows
\* at its end, by one row per accepted submission.
C5_ReadingLogAppendOnly ==
    [][/\ \A t \in Tokens, r \in Readings :
            AcceptedSubmission(t, r) => readings' = Append(readings, RowOf(t, r))
       /\ \/ readings' = readings
          \/ \E t \in Tokens, r \in Readings : AcceptedSubmission(t, r)]_vars
\* a non-qualifying reading was just appended after the qualifying reading
\* that completed the record
C5_Witness ==
    /\ response = Thanks
    /\ referrals = <<>>
    /\ Len(outreach) = 1
    /\ outreach[1].status = "completed"
    /\ Len(readings) = 2
    /\ Qualifying(<<readings[1].systolic, readings[1].diastolic>>)
    /\ readings[1].reported_at < clock
    /\ LastReading = RowOf(outreach[1].token_jwt, <<SysLimit - 1, DiaLimit>>)

\* C6: clicking is first-click-wins: once clicked_at is set on a record, no
\* later step (in particular a further click with the same token) changes
\* it.
C6_FirstClickWins ==
    [][\A i \in DOMAIN outreach :
          outreach[i].clicked_at # NULL
          => outreach'[i].clicked_at = outreach[i].clicked_at]_vars
\* the record's link was just clicked again, in a later tick than its
\* first click
C6_Witness ==
    /\ response = Resp(200, "Care actions")
    /\ Len(outreach) = 1
    /\ outreach[1].clicked_at # NULL
    /\ outreach[1].clicked_at < clock

\* C7: a record follows queued -> sent -> clicked -> completed: a record
\* that becomes (or stays) completed has clicked_at set and was clicked or
\* completed before; none goes from queued or sent directly to completed.
C7_LifecycleOrder ==
    [][\A i \in DOMAIN outreach :
          outreach'[i].status = "completed"
          => /\ outreach'[i].clicked_at # NULL
             /\ outreach[i].status \in {"clicked", "completed"}]_vars

\* C8: a valid click on a record whose status is sent moves the record's
\* status to clicked.
C8_ClickMovesSentToClicked ==
    [][\A i \in DOMAIN outreach :
          (/\ outreach[i].status = "sent"
           /\ ValidToken(outreach[i].token_jwt)
           /\ go(outreach[i].token_jwt))
          => outreach'[i].status = "clicked"]_vars

\* C9: send_queued is idempotent and safe to run repeatedly or
\* concurrently: with no other request in between, before the first commit
\* of a run of sweeps the ledger is as the first of them read it, and from
\* then on it is what a single sweep produces from that ledger (every row
\* that was queued is sent, every other row is untouched).
SingleSweep(rows) ==
    [i \in DOMAIN rows |->
        IF rows[i].status = "queued"
        THEN [rows[i] EXCEPT !.status = "sent"]
        ELSE rows[i]]
C9_SweepIdempotent ==
    quiet.on =>
        outreach = IF quiet.runs = 0 THEN quiet.base ELSE SingleSweep(quiet.base)
\* two interleaved sweeps have both committed, over a ledger that held a
\* queued row and a completed row
C9_Witness ==
    /\ quiet.on
    /\ quiet.runs = 2
    /\ quiet.overlap
    /\ InFlight = {}
    /\ \E i, j \in DOMAIN quiet.base :
          quiet.base[i].status = "queued" /\ quiet.base[j].status = "completed"

\* C10: no two outreach records ever hold the same token.
C10_TokensDistinct ==
    \A i, j \in DOMAIN outreach :
        i # j => outreach[i].token_jwt # outreach[j].token_jwt

\* the outreach records a step changes
ChangedRecords == {i \in DOMAIN outreach : outreach'[i] # outreach[i]}
\* a click or a reading submission
ClickOrSubmission ==
    \E t \in Tokens :
        \/ go(t)
        \/ \E r \in Readings : bp_submit(t, r[1], r[2])

\* C11: every ledger write is scoped to a single record: one click or one
\* reading submission changes at most one outreach record and leaves all
\* other outreach records unchanged.
C11_WriteScopedToOneRecord ==
    [][Cardinality(ChangedRecords) <= 1 \/ ~ClickOrSubmission]_vars

\* C12: in every reachable state, every outreach record with completed_at
\* set has measure CBP, and the reading log holds at least one reading of
\* that record's patient with systolic < 140 and diastolic < 90.
C12_CompletedHasQualifyingReading ==
    \A i \in DOMAIN outreach :
        outreach[i].completed_at # NULL
        => /\ outreach[i].measure = "CBP"
           /\ \E k \in DOMAIN readings :
                 /\ readings[k].patient_id = outreach[i].patient_id
                 /\ readings[k].systolic < SysLimit
                 /\ readings[k].diastolic < DiaLimit
\* a record is completed, beside a reading at the systolic limit that was
\* submitted before the qualifying one
C12_Witness ==
    /\ Len(outreach) = 1
    /\ outreach[1].completed_at # NULL
    /\ Len(readings) = 2
    /\ readings[1].systolic = SysLimit
    /\ Qualifying(<<readings[2].systolic, readings[2].diastolic>>)

\* C13: completed_at is set at most once per record: once a record has a
\* completed_at value, no later step (in particular a further qualifying
\* submission with the same still-valid token) changes that value.
C13_CompletedAtSetOnce ==
    [][\A i \in DOMAIN outreach :
          outreach[i].completed_at # NULL
          => outreach'[i].completed_at = outreach[i].completed_at]_vars

\* C14: the timestamps of a record are in increasing order when present: a
\* record with both clicked_at and completed_at set has
\* sent_at <= clicked_at <= completed_at.
C14_TimestampsIncreasing ==
    \A i \in DOMAIN outreach :
        (outreach[i].clicked_at # NULL /\ outreach[i].completed_at # NULL)
        => /\ outreach[i].sent_at <= outreach[i].clicked_at
           /\ outreach[i].clicked_at <= outreach[i].completed_at

\* instants <<whole, part of a second>>: the present, and mint time + 10 days
\* of record i (SpecClock mints one link and keeps its instant in micro)
Now == <<clock, micro.now>>
ExpiresAt(i) == <<outreach[i].sent_at + TTL, micro.mint>>
After(a, b) == a[1] > b[1] \/ (a[1] = b[1] /\ a[2] > b[2])

\* C15: mint/verify round trip: the token stored by enqueue(p, m) on the
\* new record verifies, at every time up to its expiry, to claims whose
\* patient is p and whose measure is m; and a click with that token right
\* after the enqueue returns the action menu.
RoundTrip ==
    \A i \in DOMAIN outreach :
        ~After(Now, ExpiresAt(i))
        => /\ Verifies(outreach[i].token_jwt)
           /\ verify_token(outreach[i].token_jwt).pid = outreach[i].patient_id
           /\ verify_token(outreach[i].token_jwt).m = outreach[i].measure
ClickAfterEnqueue ==
    /\ response = Resp(200, "ok")
    /\ outreach # <<>>
    /\ go(outreach[Len(outreach)].token_jwt)
C15_MintVerifyRoundTrip ==
    /\ []RoundTrip
    /\ [][ClickAfterEnqueue => response' = Resp(200, "Care actions")]_vars
\* the link of the last patient, for DM_A1C, was clicked in the second of
\* its enqueue and the menu returned
C15_Witness ==
    /\ response = Resp(200, "Care actions")
    /\ Len(outreach) = 1
    /\ outreach[1].patient_id = MaxPatient
    /\ outreach[1].measure = "DM_A1C"
    /\ outreach[1].token_jwt.pid = MaxPatient
    /\ outreach[1].token_jwt.m = "DM_A1C"
    /\ outreach[1].status = "queued"
    /\ outreach[1].clicked_at = clock
    /\ outreach[1].sent_at = clock

\* a request that verifies token t
Verification(t) ==
    \/ go(t)
    \/ bp_form(t)
    \/ referral_form(t)
    \/ \E r \in Readings : bp_submit(t, r[1], r[2])

\* C16 (as stated): a token is valid for exactly 10 days from minting: a
\* verification at a time now > mint time + 10 days fails, one at
\* now <= mint time + 10 days does not, and no step changes a stored token.
C16_ValidExactlyTenDays ==
    [][\A i \in DOMAIN outreach :
          /\ Verification(outreach[i].token_jwt)
             => (response' = Unauthorized <=> After(Now, ExpiresAt(i)))
          /\ outreach'[i].token_jwt = outreach[i].token_jwt]_vars
\* C16 (amended): a token is valid for 10 days from minting to the whole
\* second: a verification fails when the second of now lies after the
\* second of minting + 10 days and passes otherwise (so up to one second
\* past mint time + 10 days), and no step changes a stored token.
C16_ValidTenDaysToTheSecond ==
    [][\A i \in DOMAIN outreach :
          /\ Verification(outreach[i].token_jwt)
             => (response' = Unauthorized <=> clock > outreach[i].sent_at + TTL)
          /\ outreach'[i].token_jwt = outreach[i].token_jwt]_vars
\* a click was accepted in the last second of the link, later within that
\* second than the link was minted within its own
C16_Witness ==
    /\ response = Resp(200, "Care actions")
    /\ Len(outreach) = 1
    /\ clock = outreach[1].sent_at + TTL
    /\ outreach[1].clicked_at = clock
    /\ micro.now > micro.mint

\* the responses of the token-bearing endpoints
Responses ==
    {Unauthorized, Thanks, Resp(200, "Care actions"),
     Resp(200, "Submit Blood Pressure"), Resp(200, "Referral Request")}
\* the request A(t), made in the current state, can be answered with x
Answers(A(_), t, x) == ENABLED (A(t) /\ response' = x)
\* the requests A(t1) and A(t2) are answered, and every answer to one equals
\* every answer to the other
SameAnswer(A(_), t1, t2) ==
    /\ \E x \in Responses : Answers(A, t1, x)
    /\ \E x \in Responses : Answers(A, t2, x)
    /\ \A x1, x2 \in Responses :
          Answers(A, t1, x1) /\ Answers(A, t2, x2) => x1 = x2

\* C17: on every token-bearing endpoint, the response to a request with a
\* forged token and the response to the same request with an expired but
\* correctly signed token are identical (same status code, same message).
C17_FailureCausesIndistinguishable ==
    \A t1, t2 \in Tokens :
        (t1.key # SECRET /\ t2.key = SECRET /\ t2.exp < clock)
        => /\ SameAnswer(go, t1, t2)
           /\ SameAnswer(bp_form, t1, t2)
           /\ SameAnswer(referral_form, t1, t2)
           /\ \A r \in Readings :
                 SameAnswer(LAMBDA t : bp_submit(t, r[1], r[2]), t1, t2)
           /\ \A reason \in Reasons :
                 SameAnswer(LAMBDA t : referral_submit(t, reason, ""), t1, t2)
\* a request was just rejected while the client holds an expired link of a
\* completed record and its forged copy, which has not expired
C17_Witness ==
    /\ response = Unauthorized
    /\ \E t1, t2 \in Tokens :
          /\ t1.key # SECRET
          /\ t2.key = SECRET /\ t2.exp < clock
    /\ \E i \in DOMAIN outreach : outreach[i].status = "completed"

\* C18: the response to a reading submission with a valid token does not
\* depend on the reading or on whether the goal was met: a qualifying and
\* a non-qualifying submission with the same valid token are both answered
\* with the redirect to the thank-you page.
C18_SubmissionResponseUniform ==
    \A t \in Tokens, r1, r2 \in Readings :
        (ValidToken(t) /\ Qualifying(r1) /\ ~Qualifying(r2))
        => /\ SameAnswer(LAMBDA u : bp_submit(u, r1[1], r1[2]), t, t)
           /\ SameAnswer(LAMBDA u : bp_submit(u, r2[1], r2[2]), t, t)
           /\ \A x1, x2 \in Responses :
                 (/\ Answers(LAMBDA u : bp_submit(u, r1[1], r1[2]), t, x1)
                  /\ Answers(LAMBDA u : bp_submit(u, r2[1], r2[2]), t, x2))
                 => x1 = Thanks /\ x2 = Thanks
\* within one tick a qualifying and a non-qualifying reading were submitted
\* with the token of a CBP record, and the last of them was answered with
\* the redirect
C18_Witness ==
    /\ response = Thanks
    /\ Len(outreach) = 1
    /\ outreach[1].measure = "CBP"
    /\ outreach[1].completed_at = clock
    /\ Len(readings) = 2
    /\ readings[1].reported_at = clock
    /\ readings[2].reported_at = clock
    /\ Qualifying(<<readings[1].systolic, readings[1].diastolic>>)
    /\ ~Qualifying(<<readings[2].systolic, readings[2].diastolic>>)

\* C19: a click or a reading submission whose token verifies (correct
\* signature, not expired) but matches no outreach record is answered with
\* an error; it does not complete as a normal success.
C19_UnknownTokenNotFound ==
    [][\A t \in MintedTokens \ StoredTokens :
          (/\ ValidToken(t)
           /\ \/ go(t)
              \/ \E r \in Readings : bp_submit(t, r[1], r[2]))
          => response'.code >= 400]_vars

\* C20: every supported measure code (CBP, STATIN, DM_A1C) has a threshold
\* rule that can close the loop: for every record with a valid token there
\* is a reading whose submission with that token moves the record to
\* completed.
C20_EveryMeasureCanComplete ==
    \A i \in DOMAIN outreach :
        (outreach[i].measure \in Measures /\ ValidToken(outreach[i].token_jwt))
        => \E r \in Readings :
              ENABLED (/\ bp_submit(outreach[i].token_jwt, r[1], r[2])
                       /\ outreach'[i].status = "completed")

\* the ids a sweep fetched
Fetched(s) == {sweep[s].rows[k] : k \in DOMAIN sweep[s].rows}

\* C21: a record in queued or sent moves to failed when its dispatch fails,
\* and failed is terminal: a record with status failed never changes
\* status.
C21_FailedOnDispatchFailure ==
    [][/\ \A s \in Sweepers :
            SendFail(s)
            => \A i \in Fetched(s) :
                  outreach[i].status \in {"queued", "sent"}
                  => outreach'[i].status = "failed"
       /\ \A i \in DOMAIN outreach :
            outreach[i].status = "failed" => outreach'[i].status = "failed"]_vars

\* the records that are queued
Queued == {i \in DOMAIN outreach : outreach[i].status = "queued"}
\* a sweep that reads fetches every queued record, and when it returns none
\* of the records it fetched is queued
SweepClearsQueued ==
    \A s \in Sweepers :
        /\ SendRead(s)
           => Queued = {sweep'[s].rows[k] : k \in DOMAIN sweep'[s].rows}
        /\ SendWrite(s)
           => \A i \in Fetched(s) : outreach'[i].status # "queued"
\* record i, once enqueued, eventually leaves queued
LeavesQueued(i) ==
    (i \in DOMAIN outreach /\ outreach[i].status = "queued")
        ~> (i \in DOMAIN outreach /\ outreach[i].status # "queued")

\* C22: every send_queued invocation terminates, and every record that is
\* queued when the invocation reads the ledger is no longer queued when it
\* returns; hence, with send_queued run again and again, every enqueued
\* record eventually leaves queued, also while records keep being enqueued.
C22_SweepTerminatesAndDrains ==
    /\ [][SweepClearsQueued]_vars
    /\ \A s \in Sweepers : (sweep[s].pc = "loop") ~> (sweep[s].pc = "idle")
    /\ \A i \in 1..MaxRecords : LeavesQueued(i)
\* a sweep just returned having sent the one record that was enqueued
\* after an earlier sweep had sent the first
C22_Witness ==
    /\ response = [Resp(200, "sent") EXCEPT !.sent = 1]
    /\ Len(outreach) = 2
    /\ outreach[1].status = "sent"
    /\ outreach[2].status = "sent"
    /\ outreach[1].sent_at < outreach[2].sent_at
    /\ InFlight = {}

\* the step changes outreach records of patient p only
OwnRecordsOnly(p) ==
    /\ Len(outreach') = Len(outreach)
    /\ \A i \in DOMAIN outreach :
          outreach'[i] # outreach[i] => outreach[i].patient_id = p
\* the step adds one row for patient p at the end of log and changes no row
AddsRowOf(log, p) ==
    /\ Len(log') = Len(log) + 1
    /\ SubSeq(log', 1, Len(log)) = log
    /\ log'[Len(log')].patient_id = p

\* C23: a token acts only on its own patient: a click or a submission with
\* a valid token minted for patient p changes outreach records of p only,
\* every reading row and referral row it writes carries p, it changes no
\* existing reading or referral, and a referral submission changes no
\* outreach record and no reading.
C23_TokenActsOnOwnPatient ==
    [][\A t \in Tokens :
          ValidToken(t)
          => /\ go(t)
                => /\ OwnRecordsOnly(t.pid)
                   /\ readings' = readings /\ referrals' = referrals
             /\ \A r \in Readings :
                   bp_submit(t, r[1], r[2])
                   => /\ OwnRecordsOnly(t.pid)
                      /\ AddsRowOf(readings, t.pid)
                      /\ referrals' = referrals
             /\ \A reason \in Reasons :
                   referral_submit(t, reason, "")
                   => /\ outreach' = outreach
                      /\ readings' = readings
                      /\ AddsRowOf(referrals, t.pid)]_vars
\* the second patient's link just completed the second patient's record
\* with a reading of the second patient, the first patient's record being
\* still queued and unclicked
C23_Witness ==
    /\ response = Thanks
    /\ Len(outreach) = 2
    /\ outreach[1].patient_id = 1 /\ outreach[2].patient_id = 2
    /\ outreach[1].status = "queued" /\ outreach[1].clicked_at = NULL
    /\ outreach[2].status = "completed" /\ outreach[2].completed_at = clock
    /\ Len(readings) = 1
    /\ readings[1].patient_id = 2

\* C24: in every reachable state a record has status completed if and only
\* if its completed_at is set.
C24_CompletedIffCompletedAt ==
    \A i \in DOMAIN outreach :
        outreach[i].status = "completed" <=> outreach[i].completed_at # NULL

\* the records a step moves from queued to sent
NewlySent ==
    {i \in DOMAIN outreach :
        outreach[i].status = "queued" /\ outreach'[i].status = "sent"}

\* C25: the count a send_queued invocation returns is the number of records
\* whose status it changed from queued to sent, so that no record is
\* counted by two concurrent invocations.
C25_CountIsRecordsSent ==
    [][\A s \in Sweepers :
          SendWrite(s) => response'.sent = Cardinality(NewlySent)]_vars
====
